---------------------------- MODULE Spec2Model ----------------------------
(***************************************************************************)
(* The session store of Examples/ (table guarded by _LOCK) and of          *)
(* Examples-test/ (no lock), as one state machine.  A string is a sequence *)
(* of one-character strings, so that the token format, the split on the    *)
(* delimiter and the comparison of signatures are computed, not assumed.   *)
(***************************************************************************)
EXTENDS Naturals, Sequences, FiniteSets, TLC

\* ------------------------------------------------------------------ bounds
MaxTime == 1        \* the clock runs over 0..MaxTime
MaxCalls == 3       \* API calls made in one run
SigLen == 2         \* hex digits of a signature (64 in the program)

\* ------------------------------------------------------------- input sets
Callers == {"c1", "c2"}
Dot == "."
NonAscii == "u00e9"                      \* one character outside ASCII
HexDigits == <<"0", "1", "2", "3", "4", "5", "6", "7",
               "8", "9", "a", "b", "c", "d", "e", "f">>
Sids == {<<"s">>, <<"s", Dot, "t">>}
SidOrder == <<(<<"s">>), (<<"s", Dot, "t">>)>>
Users == {"u1", "u2"}
UserOf(c) == IF c = "c1" THEN "u1" ELSE "u2"   \* the principal a caller acts for
Secrets == {"K", "J"}                   \* secrets a caller may present
AppSecret == "K"                        \* the secret sessions are created with
TTLs == {0, 1}
FlipChars == {"0", "f", Dot, NonAscii}

\* --------------------------------------------------------------- strings
HasDot(str) == \E i \in 1..Len(str) : str[i] = Dot

IsAscii(str) == \A i \in 1..Len(str) : str[i] # NonAscii

FirstDot(str) == CHOOSE i \in 1..Len(str) :
                    str[i] = Dot /\ \A j \in 1..(i - 1) : str[j] # Dot

\* token_with_sig.split(".", 1): the parts before and after the first "."
SplitFirst(str) == <<SubSeq(str, 1, FirstDot(str) - 1),
                     SubSeq(str, FirstDot(str) + 1, Len(str))>>

\* token_with_sig.split("."): the number of parts
PartCount(str) == Cardinality({i \in 1..Len(str) : str[i] = Dot}) + 1

\* ------------------------------------------------------------ crypto_utils
Code(ch) == CASE ch = "s" -> 1
              [] ch = "t" -> 2
              [] ch = Dot -> 3
              [] OTHER -> 4

SecretCode(secret) == IF secret = "K" THEN 7 ELSE 11

RECURSIVE Pow16(_)
Pow16(n) == IF n = 0 THEN 1 ELSE 16 * Pow16(n - 1)

RECURSIVE Digest(_, _)
Digest(str, acc) == IF str = <<>> THEN acc
                    ELSE Digest(Tail(str), (acc * 31 + Code(Head(str))) % Pow16(SigLen))

\* sign(token, secret): the hex digest, SigLen characters of 0-9a-f
RECURSIVE HexOf(_, _)
HexOf(h, n) == IF n = 0 THEN <<>>
               ELSE HexOf(h \div 16, n - 1) \o <<HexDigits[(h % 16) + 1]>>

sign(token, secret) == HexOf(Digest(token, SecretCode(secret)), SigLen)

\* hmac.compare_digest on two str: TypeError when either is not ASCII
CompareRaises(a, b) == ~IsAscii(a) \/ ~IsAscii(b)

constant_time_equal(a, b) == a = b

\* f"{token}.{sig}"
Token(sid, secret) == sid \o <<Dot>> \o sign(sid, secret)

\* ----------------------------------------------------------------- tokens
ValidTokens == {Token(sid, k) : sid \in Sids, k \in Secrets}

Flip(str, i, ch) == SubSeq(str, 1, i - 1) \o <<ch>> \o SubSeq(str, i + 1, Len(str))

\* the tokens that differ from T in exactly one character of the signature
FlipsOf(T) == {Flip(T, i, ch) : i \in (Len(T) - SigLen + 1)..Len(T),
                               ch \in FlipChars} \ {T}

\* a string with no delimiter in it
NoDelimiter == <<"s">>

\* token differs from the token issued for some sid under secret in exactly
\* one character of the part after the delimiter
IsFlipped(token, secret) == \E sid \in Sids : token \in FlipsOf(Token(sid, secret))

\* what a caller may present to validate_token: under each secret, the
\* tokens issued under it, their one-character flips, a token issued under
\* another secret, and a string with no delimiter
Presented ==
    UNION {
      {[token |-> t, secret |-> k, flipped |-> IsFlipped(t, k)] :
         t \in ValidTokens
                \cup UNION {FlipsOf(Token(sid, k)) : sid \in Sids}
                \cup {NoDelimiter}} : k \in Secrets}

\* ------------------------------------------------------- table and records
EmptyTable == [sid \in {} |-> sid]

\* an insert that keeps the record already there
PutIfAbsent(tbl, sid, rec) ==
    [x \in DOMAIN tbl \cup {sid} |-> IF x \in DOMAIN tbl THEN tbl[x] ELSE rec]

\* _SESSIONS[sid] = rec: insert, or replace the record already there
Put(tbl, sid, rec) == [x \in DOMAIN tbl \cup {sid} |-> IF x = sid THEN rec ELSE tbl[x]]

Without(tbl, gone) == [x \in DOMAIN tbl \ gone |-> tbl[x]]

\* the user of the record for sid that an insert replaces, "none" if there is
\* no such record (history)
Replaced(tbl, sid, field) ==
    IF sid \in DOMAIN tbl /\ field \in DOMAIN tbl[sid] THEN tbl[sid][field] ELSE "none"

\* a table value that is a dict (a JSON number is modelled as [num |-> n])
IsDict(v) == "num" \notin DOMAIN v

\* ------------------------------------------------------------------ files
Missing == [kind |-> "missing"]
Truncated == [kind |-> "empty"]
Garbled == [kind |-> "garbage"]

RECURSIVE Members(_, _)
Members(tbl, order) ==
    IF order = <<>> THEN <<>>
    ELSE (IF Head(order) \in DOMAIN tbl
          THEN <<(<<Head(order), tbl[Head(order)]>>)>> ELSE <<>>)
         \o Members(tbl, Tail(order))

\* a dump that loses the expiry of every record
DumpWithoutExpiry(tbl) ==
    [kind |-> "object",
     members |-> Members([sid \in DOMAIN tbl |->
                            [f \in DOMAIN tbl[sid] \ {"expires_at"} |-> tbl[sid][f]]],
                         SidOrder)]

\* a dump that stops after the first record
DumpFirstOnly(tbl) ==
    [kind |-> "object",
     members |-> IF Members(tbl, SidOrder) = <<>> THEN <<>>
                 ELSE <<Head(Members(tbl, SidOrder))>>]

\* json.dump(data, f): the object, one member per key
Dump(tbl) == [kind |-> "object", members |-> Members(tbl, SidOrder)]

RECURSIVE FromMembers(_)
FromMembers(ms) ==
    IF ms = <<>> THEN EmptyTable
    ELSE Put(FromMembers(SubSeq(ms, 1, Len(ms) - 1)), ms[Len(ms)][1], ms[Len(ms)][2])

\* what the file holds once json.dump has written text at the start of a file
\* opened with "w": the text alone if the file is still empty, else the text
\* over what another writer has put there since, which may be longer
Written(old, text) == IF old = Truncated THEN {text} ELSE {text, Garbled}

\* json.load(f): "raise" on text that is no JSON, else the value's shape
ParseFails(f) == f.kind \in {"empty", "garbage"}

\* what the file holds at the start: nothing, a JSON number, the table as
\* Examples/ saves it, and a mapping of other shapes (a record in the field
\* names of Examples-test/, and a value that is no record)
InitFiles ==
    { Missing,
      [kind |-> "number"],
      [kind |-> "object",
       members |-> <<(<<(<<"s">>), [user_id |-> "u1", created_at |-> 0, expires_at |-> 1]>>)>>],
      [kind |-> "object",
       members |-> <<(<<(<<"s">>), [user |-> "u1", expires |-> 1]>>),
                     (<<(<<"s", Dot, "t">>), [num |-> 5]>>)>>] }

\* ------------------------------------------------------------------ state
VARIABLES
    impl,       \* "locked" (Examples/) or "lockfree" (Examples-test/)
    now,        \* time.time()
    sessions,   \* _SESSIONS: session id -> record
    tableIsDict,\* FALSE once Examples-test rebinds _SESSIONS to a non-mapping
    lock,       \* _LOCK: its holder
    sweeper,    \* _SWEEPER / _SWEEPER_STARTED: "None" or the thread last made
    spc,        \* sweeper thread made by each caller: its position
    sloc,       \* ... its locals (now, expired)
    pc,         \* each caller's position
    loc,        \* ... its locals
    res,        \* ... the outcome of the call it has just finished
    file,       \* the content of the file at the path
    tel,        \* telemetry: the calls the latest step made, with "under _LOCK"
    calls,      \* API calls started so far
    issued,     \* history: per session id, the latest create_session
    snap        \* history: the latest save_to_disk snapshot, while untouched

vars == <<impl, now, sessions, tableIsDict, lock, sweeper, spc, sloc, pc, loc,
          res, file, tel, calls, issued, snap>>

Free == [by |-> "none", id |-> "none"]
HeldByCaller(c) == [by |-> "caller", id |-> c]
HeldBySweeper(c) == [by |-> "sweeper", id |-> c]

\* a lock that excludes nobody
AcquireWithoutWaiting(holder) == lock' = holder

\* with _LOCK: block until the lock is free, then hold it
Acquire(holder) == lock = Free /\ lock' = holder

\* an exception that leaves the lock with the thread that raised
HeldAfterRaise(holder) == holder

\* an exception leaves a with _LOCK block: the lock is released
ReleasedOnRaise(holder) == Free

NoLoc == [op |-> "none"]
NoRes == [op |-> "none"]
NoIssue == [none |-> TRUE]
NoSnap == [none |-> TRUE]
NoSloc == [now |-> 0, expired |-> <<>>]

Emit(names, locked) == {[name |-> n, locked |-> locked] : n \in names}

\* a step that makes no telemetry call
Quiet == tel' = {}

InitCommon ==
    /\ now = 0
    /\ sessions = EmptyTable
    /\ tableIsDict = TRUE
    /\ lock = Free
    /\ sweeper = "None"
    /\ spc = [c \in Callers |-> "unstarted"]
    /\ sloc = [c \in Callers |-> NoSloc]
    /\ pc = [c \in Callers |-> "idle"]
    /\ loc = [c \in Callers |-> NoLoc]
    /\ res = [c \in Callers |-> NoRes]
    /\ file \in InitFiles
    /\ tel = {}
    /\ calls = 0
    /\ issued = [sid \in Sids |-> NoIssue]
    /\ snap = NoSnap

Init == impl = "locked" /\ InitCommon

\* a caller starts a call
Begin(c) == pc[c] \in {"idle", "done"} /\ calls < MaxCalls /\ calls' = calls + 1

\* a call ends: the caller holds the outcome until its next call
Finish(c, outcome) ==
    /\ pc' = [pc EXCEPT ![c] = "done"]
    /\ loc' = [loc EXCEPT ![c] = NoLoc]
    /\ res' = [res EXCEPT ![c] = outcome]

Goto(c, label, locals) ==
    /\ pc' = [pc EXCEPT ![c] = label]
    /\ loc' = [loc EXCEPT ![c] = locals]
    /\ res' = [res EXCEPT ![c] = NoRes]

\* the clock advances
Tick ==
    /\ now < MaxTime
    /\ now' = now + 1
    /\ UNCHANGED <<impl, sessions, tableIsDict, lock, sweeper, spc, sloc, pc,
                   loc, res, file, calls, issued, snap>>
    /\ Quiet

\* ============================================== Examples/session_store.py
Locked == impl = "locked"

\* ---------------------------------------------------------- start_sweeper
\* line 15: if _SWEEPER is not None: return
SweeperExists(handle) == handle # "None"

StartSweeperCheck(c) ==
    /\ Locked /\ Begin(c)
    /\ IF SweeperExists(sweeper)
       THEN Finish(c, [op |-> "start_sweeper", outcome |-> "return"])
       ELSE Goto(c, "ss_start", [op |-> "start_sweeper"])
    /\ UNCHANGED <<impl, now, sessions, tableIsDict, lock, sweeper, spc, sloc,
                   file, issued, snap>>
    /\ Quiet

\* lines 28-29: _SWEEPER = threading.Thread(...); _SWEEPER.start()
StartSweeperStart(c) ==
    /\ Locked /\ pc[c] = "ss_start"
    /\ sweeper' = c
    /\ spc' = [spc EXCEPT ![c] = "sleep"]
    /\ Finish(c, [op |-> "start_sweeper", outcome |-> "return"])
    /\ UNCHANGED <<impl, now, sessions, tableIsDict, lock, sloc, file, calls,
                   issued, snap>>
    /\ Quiet

\* the sweeper threads that are running
Running == {c \in Callers : spc[c] \notin {"unstarted", "dead"}}

\* ------------------------------------------------------------------- loop
\* a scan that selects every record
SweepEverything(tbl, t) == DOMAIN tbl

\* line 23: s.get("expires_at", 0) <= now
SweepExpired(tbl, t) ==
    {sid \in DOMAIN tbl :
        (IF "expires_at" \in DOMAIN tbl[sid] THEN tbl[sid].expires_at ELSE 0) <= t}

\* lines 20-21: time.sleep(interval_seconds); now = time.time()
SweeperWake(c) ==
    /\ Locked /\ spc[c] = "sleep"
    /\ spc' = [spc EXCEPT ![c] = "lock"]
    /\ sloc' = [sloc EXCEPT ![c] = [now |-> now, expired |-> <<>>]]
    /\ UNCHANGED <<impl, now, sessions, tableIsDict, lock, sweeper, pc, loc,
                   res, file, calls, issued, snap>>
    /\ Quiet

\* line 22: with _LOCK
SweeperAcquire(c) ==
    /\ Locked /\ spc[c] = "lock"
    /\ Acquire(HeldBySweeper(c))
    /\ spc' = [spc EXCEPT ![c] = "scan"]
    /\ UNCHANGED <<impl, now, sessions, tableIsDict, sweeper, sloc, pc, loc,
                   res, file, calls, issued, snap>>
    /\ Quiet

\* lines 23-26, under the lock: scan, pop and report each expired id; a value
\* that is no dict has no .get, the AttributeError ends the thread
SweeperScan(c) ==
    /\ Locked /\ spc[c] = "scan"
    /\ sloc' = [sloc EXCEPT ![c] = NoSloc]
    /\ IF \E sid \in DOMAIN sessions : ~IsDict(sessions[sid])
       THEN /\ spc' = [spc EXCEPT ![c] = "dead"]
            /\ lock' = ReleasedOnRaise(HeldBySweeper(c))
            /\ UNCHANGED <<sessions, snap>>
            /\ Quiet
       ELSE LET expired == SweepExpired(sessions, sloc[c].now)
            IN  /\ spc' = [spc EXCEPT ![c] = "sleep"]
                /\ sessions' = Without(sessions, expired)
                /\ tel' = IF expired = {} THEN {}
                          ELSE Emit({"session.expired"}, lock = HeldBySweeper(c))
                /\ snap' = IF expired = {} THEN snap ELSE NoSnap
                /\ lock' = Free
    /\ UNCHANGED <<impl, now, tableIsDict, sweeper, pc, loc, res, file, calls,
                   issued>>

\* --------------------------------------------------------- create_session
\* the expiry without the time to live
ExpiresAtNoTtl(t, ttl) == t

\* line 42: time.time() + ttl_seconds
ExpiresAt(t, ttl) == t + ttl

\* lines 36-41: sign, take the lock, read the clock for created_at
CreateCall(c) ==
    /\ Locked /\ Begin(c)
    /\ Acquire(HeldByCaller(c))
    /\ \E sid \in Sids, uid \in {UserOf(c)}, secret \in {AppSecret}, ttl \in TTLs :
         Goto(c, "cs_insert", [op |-> "create_session", sid |-> sid, uid |-> uid,
                               secret |-> secret, ttl |-> ttl, created |-> now])
    /\ UNCHANGED <<impl, now, sessions, tableIsDict, sweeper, spc, sloc, file,
                   issued, snap>>
    /\ Quiet

\* lines 42-46: read the clock for expires_at, insert, release, report, return
CreateInsert(c) ==
    /\ Locked /\ pc[c] = "cs_insert"
    /\ LET l == loc[c]
           rec == [user_id |-> l.uid, created_at |-> l.created,
                   expires_at |-> ExpiresAt(now, l.ttl)]
       IN  /\ sessions' = Put(sessions, l.sid, rec)
           /\ issued' = [issued EXCEPT ![l.sid] =
                           [sid |-> l.sid, uid |-> l.uid, secret |-> l.secret, ttl |-> l.ttl,
                            created_at |-> l.created, texp |-> now, intact |-> TRUE,
                            over |-> Replaced(sessions, l.sid, "user_id")]]
           /\ Finish(c, [op |-> "create_session", outcome |-> "value", sid |-> l.sid,
                         token |-> Token(l.sid, l.secret)])
    /\ lock' = Free
    /\ tel' = Emit({"writes", "session.created"}, FALSE)
    /\ snap' = NoSnap
    /\ UNCHANGED <<impl, now, tableIsDict, sweeper, spc, sloc, file, calls>>

\* --------------------------------------------------------- validate_token
\* line 69: s["expires_at"] <= time.time()
SessionExpired(s, t) == s.expires_at <= t

\* a validation that evicts the expired record it sees
TableAfterValidateEvicting(tbl, sid, expired) ==
    IF expired THEN Without(tbl, {sid}) ELSE tbl

\* validate_token writes nothing to the table, whatever it finds
TableAfterValidate(tbl, sid, expired) == tbl

\* the create_session a presented token answers to: the latest one for the
\* session id whose token it is, made with the presented secret
IssueOf(token, secret) ==
    LET sids == {sid \in Sids : token = Token(sid, secret)
                                 /\ issued[sid] # NoIssue
                                 /\ issued[sid].secret = secret}
    IN  IF sids = {} THEN NoIssue ELSE issued[CHOOSE sid \in sids : TRUE]

ValidateRes(outcome, val, why, flipped, token, secret) ==
    [op |-> "validate_token", outcome |-> outcome, val |-> val, why |-> why,
     flipped |-> flipped, ascii |-> IsAscii(token),
     issue |-> IssueOf(token, secret), vnow |-> now]

\* lines 53-64: the format check, the signature check, then take the lock
ValidateCall(c) ==
    /\ Locked /\ Begin(c)
    /\ \E p \in Presented :
         LET token == p.token
             secret == p.secret
             flipped == p.flipped IN
         IF ~HasDot(token)
         THEN /\ Finish(c, ValidateRes("none", "None", "format", flipped, token, secret))
              /\ tel' = Emit({"fails"}, FALSE)
              /\ lock' = lock
         ELSE LET sid == SplitFirst(token)[1]
                  sig == SplitFirst(token)[2]
                  expected == sign(sid, secret)
              IN  IF CompareRaises(sig, expected)
                  THEN /\ Finish(c, ValidateRes("raise", "None", "TypeError", flipped,
                                                token, secret))
                       /\ UNCHANGED <<lock>>
                       /\ Quiet
                  ELSE IF ~constant_time_equal(sig, expected)
                  THEN /\ Finish(c, ValidateRes("none", "None", "bad_sig", flipped,
                                                token, secret))
                       /\ tel' = Emit({"fails", "session.invalid_sig"}, FALSE)
                       /\ lock' = lock
                  ELSE /\ Acquire(HeldByCaller(c))
                       /\ Goto(c, "vt_check", [op |-> "validate_token", sid |-> sid,
                                               secret |-> secret])
                       /\ Quiet
    /\ UNCHANGED <<impl, now, sessions, tableIsDict, sweeper, spc, sloc, file,
                   issued, snap>>

\* lines 65-74, under the lock: look the record up, check expiry, return
ValidateCheck(c) ==
    /\ Locked /\ pc[c] = "vt_check"
    /\ LET sid == loc[c].sid
           secret == loc[c].secret
           token == sid \o <<Dot>> \o sign(sid, secret)
           held == lock = HeldByCaller(c)
           Done(outcome, val, why) ==
               Finish(c, ValidateRes(outcome, val, why, FALSE, token, secret))
       IN  IF sid \notin DOMAIN sessions
           THEN /\ Done("none", "None", "missing")
                /\ tel' = Emit({"fails"}, held)
                /\ sessions' = TableAfterValidate(sessions, sid, FALSE)
           ELSE LET s == sessions[sid] IN
                IF ~IsDict(s)
                THEN /\ Done("raise", "None", "TypeError")
                     /\ Quiet
                     /\ sessions' = TableAfterValidate(sessions, sid, FALSE)
                ELSE IF "expires_at" \notin DOMAIN s
                THEN /\ Done("raise", "None", "KeyError")
                     /\ Quiet
                     /\ sessions' = TableAfterValidate(sessions, sid, FALSE)
                ELSE IF SessionExpired(s, now)
                THEN /\ Done("none", "None", "expired")
                     /\ tel' = Emit({"fails", "session.expired_seen"}, held)
                     /\ sessions' = TableAfterValidate(sessions, sid, TRUE)
                ELSE IF "user_id" \notin DOMAIN s
                THEN /\ Done("raise", "None", "KeyError")
                     /\ tel' = Emit({"reads"}, held)
                     /\ sessions' = TableAfterValidate(sessions, sid, FALSE)
                ELSE /\ Done("value", s.user_id, "ok")
                     /\ tel' = Emit({"reads"}, held)
                     /\ sessions' = TableAfterValidate(sessions, sid, FALSE)
    /\ lock' = IF res'[c].outcome = "raise"
               THEN ReleasedOnRaise(HeldByCaller(c)) ELSE Free
    /\ UNCHANGED <<impl, now, tableIsDict, sweeper, spc, sloc, file, calls,
                   issued, snap>>

\* ----------------------------------------------------------- save_to_disk
\* line 78: with _LOCK
SaveCall(c) ==
    /\ Locked /\ Begin(c)
    /\ Acquire(HeldByCaller(c))
    /\ Goto(c, "sv_copy", [op |-> "save_to_disk"])
    /\ UNCHANGED <<impl, now, sessions, tableIsDict, sweeper, spc, sloc, file,
                   issued, snap>>
    /\ Quiet

\* line 79: data = dict(_SESSIONS), then the lock is released
SaveCopy(c) ==
    /\ Locked /\ pc[c] = "sv_copy"
    /\ Goto(c, "sv_open", [op |-> "save_to_disk", data |-> sessions])
    /\ lock' = Free
    /\ snap' = [by |-> c, tbl |-> sessions, written |-> FALSE]
    /\ UNCHANGED <<impl, now, sessions, tableIsDict, sweeper, spc, sloc, file,
                   calls, issued>>
    /\ Quiet

\* line 80: open(path, "w") truncates the file
SaveOpen(c) ==
    /\ Locked /\ pc[c] = "sv_open"
    /\ file' = Truncated
    /\ Goto(c, "sv_dump", loc[c])
    /\ snap' = IF snap # NoSnap /\ snap.by = c THEN snap ELSE NoSnap
    /\ UNCHANGED <<impl, now, sessions, tableIsDict, lock, sweeper, spc, sloc,
                   calls, issued>>
    /\ Quiet

\* lines 81-82: json.dump(data, f); record_event("session.saved")
SaveDump(c) ==
    /\ Locked /\ pc[c] = "sv_dump"
    /\ file' \in Written(file, Dump(loc[c].data))
    /\ tel' = Emit({"session.saved"}, FALSE)
    /\ snap' = IF snap # NoSnap /\ snap.by = c
               THEN [snap EXCEPT !.written = TRUE] ELSE NoSnap
    /\ Finish(c, [op |-> "save_to_disk", outcome |-> "return"])
    /\ UNCHANGED <<impl, now, sessions, tableIsDict, lock, sweeper, spc, sloc,
                   calls, issued>>

\* --------------------------------------------------------- load_from_disk
LoadRes(outcome, why, before, after, roundtrip, expect) ==
    [op |-> "load_from_disk", outcome |-> outcome, why |-> why,
     before |-> before, after |-> after, roundtrip |-> roundtrip, expect |-> expect]

\* lines 86-90: the existence check, then open and json.load
LoadCall(c) ==
    /\ Locked /\ Begin(c)
    /\ IF file.kind = "missing"
       THEN /\ Finish(c, LoadRes("return", "missing", sessions, sessions, FALSE, EmptyTable))
            /\ tel' = Emit({"session.load_missing"}, FALSE)
       ELSE IF ParseFails(file)
       THEN /\ Finish(c, LoadRes("raise", "JSONDecodeError", sessions, sessions,
                                 FALSE, EmptyTable))
            /\ Quiet
       ELSE /\ Goto(c, "ld_lock", [op |-> "load_from_disk", data |-> file, seen |-> snap])
            /\ Quiet
    /\ UNCHANGED <<impl, now, sessions, tableIsDict, lock, sweeper, spc, sloc,
                   file, issued, snap>>

\* line 91: with _LOCK
LoadAcquire(c) ==
    /\ Locked /\ pc[c] = "ld_lock"
    /\ Acquire(HeldByCaller(c))
    /\ Goto(c, "ld_clear", loc[c])
    /\ UNCHANGED <<impl, now, sessions, tableIsDict, sweeper, spc, sloc, file,
                   calls, issued, snap>>
    /\ Quiet

\* line 92: _SESSIONS.clear()
LoadClear(c) ==
    /\ Locked /\ pc[c] = "ld_clear"
    /\ LET l == loc[c]
           roundtrip == l.seen # NoSnap /\ l.seen.written /\ snap = l.seen
       IN  /\ Goto(c, "ld_update",
                   [op |-> "load_from_disk", data |-> l.data, before |-> sessions,
                    roundtrip |-> roundtrip,
                    expect |-> IF roundtrip THEN snap.tbl ELSE EmptyTable,
                    todo |-> IF l.data.kind = "object" THEN l.data.members ELSE <<>>])
           /\ snap' = IF roundtrip THEN snap ELSE NoSnap
    /\ sessions' = EmptyTable
    /\ issued' = [sid \in Sids |->
                    IF issued[sid] = NoIssue THEN NoIssue
                    ELSE [issued[sid] EXCEPT !.intact = FALSE]]
    /\ UNCHANGED <<impl, now, tableIsDict, lock, sweeper, spc, sloc, file,
                   calls>>
    /\ Quiet

\* line 93: _SESSIONS.update(data), one member at a time; a value that is no
\* mapping raises and the with block releases the lock
LoadUpdate(c) ==
    /\ Locked /\ pc[c] = "ld_update"
    /\ LET l == loc[c] IN
       IF l.data.kind # "object"
       THEN /\ Finish(c, LoadRes("raise", "TypeError", l.before, sessions, FALSE, EmptyTable))
            /\ lock' = ReleasedOnRaise(HeldByCaller(c))
            /\ UNCHANGED <<sessions>>
            /\ Quiet
       ELSE IF l.todo # <<>>
       THEN /\ sessions' = Put(sessions, Head(l.todo)[1], Head(l.todo)[2])
            /\ Goto(c, "ld_update", [l EXCEPT !.todo = Tail(l.todo)])
            /\ UNCHANGED <<lock>>
            /\ Quiet
       ELSE /\ Finish(c, LoadRes("return", "loaded", l.before, sessions,
                                 l.roundtrip /\ snap # NoSnap, l.expect))
            /\ lock' = Free
            /\ tel' = Emit({"session.loaded"}, FALSE)
            /\ UNCHANGED sessions
    /\ UNCHANGED <<impl, now, tableIsDict, sweeper, spc, sloc, file, calls,
                   issued, snap>>

\* ------------------------------------------------------------------ Next
Next ==
    \/ Tick
    \/ \E c \in Callers : StartSweeperCheck(c)
    \/ \E c \in Callers : StartSweeperStart(c)
    \/ \E c \in Callers : SweeperWake(c)
    \/ \E c \in Callers : SweeperAcquire(c)
    \/ \E c \in Callers : SweeperScan(c)
    \/ \E c \in Callers : CreateCall(c)
    \/ \E c \in Callers : CreateInsert(c)
    \/ \E c \in Callers : ValidateCall(c)
    \/ \E c \in Callers : ValidateCheck(c)
    \/ \E c \in Callers : SaveCall(c)
    \/ \E c \in Callers : SaveCopy(c)
    \/ \E c \in Callers : SaveOpen(c)
    \/ \E c \in Callers : SaveDump(c)
    \/ \E c \in Callers : LoadCall(c)
    \/ \E c \in Callers : LoadAcquire(c)
    \/ \E c \in Callers : LoadClear(c)
    \/ \E c \in Callers : LoadUpdate(c)

Spec == Init /\ [][Next]_vars


\* ------------------------------------------------------------ fair runs
\* the steps by which caller c goes on with the call it has started, other
\* than waiting for _LOCK
Continue(c) ==
    \/ StartSweeperStart(c)
    \/ CreateInsert(c)
    \/ ValidateCheck(c)
    \/ SaveCopy(c) \/ SaveOpen(c) \/ SaveDump(c)
    \/ LoadClear(c) \/ LoadUpdate(c)

\* the steps of the sweeper thread made by c, other than waiting for _LOCK
SweeperRun(c) == SweeperWake(c) \/ SweeperScan(c)

\* every thread that can take a step keeps being scheduled; a thread waiting
\* for _LOCK gets it if the lock is free again and again; no caller has to
\* start a call and the clock need not advance
Fairness ==
    \A c \in Callers :
        /\ WF_vars(Continue(c))
        /\ SF_vars(LoadAcquire(c))
        /\ WF_vars(SweeperRun(c))
        /\ SF_vars(SweeperAcquire(c))

FairSpec == Init /\ [][Next]_vars /\ Fairness

\* ========================================= Examples-test/session_store.py
LockFree == impl = "lockfree"

InitTest == impl = "lockfree" /\ InitCommon

\* lines 19 and 47: data["expires"] < now
TestExpired(rec, t) == rec.expires < t

\* lines 12-13: if _SWEEPER_STARTED: return
TStartSweeperCheck(c) ==
    /\ LockFree /\ Begin(c)
    /\ IF sweeper # "None"
       THEN Finish(c, [op |-> "start_sweeper", outcome |-> "return"])
       ELSE Goto(c, "ts_start", [op |-> "start_sweeper"])
    /\ UNCHANGED <<impl, now, sessions, tableIsDict, lock, sweeper, spc, sloc,
                   file, issued, snap>>
    /\ Quiet

\* lines 14-25: _SWEEPER_STARTED = True; threading.Thread(target=sweep).start()
TStartSweeperStart(c) ==
    /\ LockFree /\ pc[c] = "ts_start"
    /\ sweeper' = c
    /\ spc' = [spc EXCEPT ![c] = "scan"]
    /\ Finish(c, [op |-> "start_sweeper", outcome |-> "return"])
    /\ UNCHANGED <<impl, now, sessions, tableIsDict, lock, sloc, file, calls,
                   issued, snap>>
    /\ Quiet

RECURSIVE ExpiredList(_, _, _)
ExpiredList(tbl, t, order) ==
    IF order = <<>> THEN <<>>
    ELSE (IF Head(order) \in DOMAIN tbl /\ TestExpired(tbl[Head(order)], t)
          THEN <<Head(order)>> ELSE <<>>)
         \o ExpiredList(tbl, t, Tail(order))

\* lines 18-19 (and 23, when nothing has expired): read the clock and list the
\* expired ids; a table or a record of another shape raises and ends the thread
TSweepScan(c) ==
    /\ LockFree /\ spc[c] = "scan"
    /\ IF \/ ~tableIsDict
          \/ \E sid \in DOMAIN sessions :
                ~IsDict(sessions[sid]) \/ "expires" \notin DOMAIN sessions[sid]
       THEN /\ spc' = [spc EXCEPT ![c] = "dead"]
            /\ sloc' = [sloc EXCEPT ![c] = NoSloc]
       ELSE LET expired == ExpiredList(sessions, now, SidOrder)
            IN  IF expired = <<>>
                THEN UNCHANGED <<spc, sloc>>
                ELSE /\ spc' = [spc EXCEPT ![c] = "del"]
                     /\ sloc' = [sloc EXCEPT ![c] = [now |-> now, expired |-> expired]]
    /\ UNCHANGED <<impl, now, sessions, tableIsDict, lock, sweeper, pc, loc,
                   res, file, calls, issued, snap>>
    /\ Quiet

\* lines 20-23: del _SESSIONS[sid]; record_event("session.expired"); a key
\* that is gone raises KeyError and ends the thread
TSweepDel(c) ==
    /\ LockFree /\ spc[c] = "del"
    /\ LET sid == Head(sloc[c].expired)
           rest == Tail(sloc[c].expired)
       IN  IF tableIsDict /\ sid \in DOMAIN sessions
           THEN /\ sessions' = Without(sessions, {sid})
                /\ tel' = Emit({"session.expired"}, FALSE)
                /\ snap' = NoSnap
                /\ IF rest = <<>>
                   THEN /\ spc' = [spc EXCEPT ![c] = "scan"]
                        /\ sloc' = [sloc EXCEPT ![c] = NoSloc]
                   ELSE /\ spc' = spc
                        /\ sloc' = [sloc EXCEPT ![c].expired = rest]
           ELSE /\ spc' = [spc EXCEPT ![c] = "dead"]
                /\ sloc' = [sloc EXCEPT ![c] = NoSloc]
                /\ UNCHANGED <<sessions, snap>>
                /\ Quiet
    /\ UNCHANGED <<impl, now, tableIsDict, lock, sweeper, pc, loc, res, file,
                   calls, issued>>

\* lines 27-32: create_session
TCreate(c) ==
    /\ LockFree /\ Begin(c)
    /\ \E sid \in Sids, uid \in {UserOf(c)}, secret \in {AppSecret}, ttl \in TTLs :
         IF ~tableIsDict
         THEN /\ Finish(c, [op |-> "create_session", outcome |-> "raise"])
              /\ UNCHANGED <<sessions, issued, snap>>
              /\ Quiet
         ELSE /\ sessions' = Put(sessions, sid, [user |-> uid, expires |-> now + ttl])
              /\ issued' = [issued EXCEPT ![sid] =
                              [sid |-> sid, uid |-> uid, secret |-> secret, ttl |-> ttl,
                               created_at |-> now, texp |-> now, intact |-> TRUE,
                               over |-> Replaced(sessions, sid, "user")]]
              /\ snap' = NoSnap
              /\ tel' = Emit({"session.created"}, FALSE)
              /\ Finish(c, [op |-> "create_session", outcome |-> "value", sid |-> sid,
                            token |-> Token(sid, secret)])
    /\ UNCHANGED <<impl, now, tableIsDict, lock, sweeper, spc, sloc, file>>

\* lines 35-46: split on ".", check the signature, fetch the record
TValidateCall(c) ==
    /\ LockFree /\ Begin(c)
    /\ \E p \in Presented :
         LET token == p.token
             secret == p.secret
             Done(outcome, why) ==
                 Finish(c, ValidateRes(outcome, "None", why, p.flipped, token, secret))
         IN
         IF PartCount(token) # 2
         THEN Done("none", "format") /\ tel' = Emit({"token.invalid_format"}, FALSE)
         ELSE LET sid == SplitFirst(token)[1]
                  sig == SplitFirst(token)[2]
                  expected == sign(sid, secret)
              IN  IF CompareRaises(sig, expected)
                  THEN Done("raise", "TypeError") /\ Quiet
                  ELSE IF ~constant_time_equal(sig, expected)
                  THEN Done("none", "bad_sig") /\ tel' = Emit({"token.bad_signature"}, FALSE)
                  ELSE IF ~tableIsDict
                  THEN Done("raise", "AttributeError") /\ Quiet
                  ELSE /\ Goto(c, "tv_check",
                               [op |-> "validate_token", sid |-> sid, secret |-> secret,
                                found |-> sid \in DOMAIN sessions,
                                data |-> IF sid \in DOMAIN sessions
                                         THEN sessions[sid] ELSE [num |-> 0]])
                       /\ Quiet
    /\ UNCHANGED <<impl, now, sessions, tableIsDict, lock, sweeper, spc, sloc,
                   file, issued, snap>>

\* lines 47-51: the expiry check on the record fetched, and the return
TValidateCheck(c) ==
    /\ LockFree /\ pc[c] = "tv_check"
    /\ LET l == loc[c]
           token == l.sid \o <<Dot>> \o sign(l.sid, l.secret)
           Done(outcome, val, why) ==
               Finish(c, ValidateRes(outcome, val, why, FALSE, token, l.secret))
       IN  IF ~l.found
           THEN Done("none", "None", "missing")
                /\ tel' = Emit({"token.expired_or_missing"}, FALSE)
           ELSE IF ~IsDict(l.data)
           THEN Done("raise", "None", "TypeError") /\ Quiet
           ELSE IF "expires" \notin DOMAIN l.data
           THEN Done("raise", "None", "KeyError") /\ Quiet
           ELSE IF TestExpired(l.data, now)
           THEN Done("none", "None", "expired")
                /\ tel' = Emit({"token.expired_or_missing"}, FALSE)
           ELSE IF "user" \notin DOMAIN l.data
           THEN Done("raise", "None", "KeyError") /\ Quiet
           ELSE Done("value", l.data.user, "ok") /\ Quiet
    /\ UNCHANGED <<impl, now, sessions, tableIsDict, lock, sweeper, spc, sloc,
                   file, calls, issued, snap>>

\* line 54: open(path, "w") truncates the file
TSaveOpen(c) ==
    /\ LockFree /\ Begin(c)
    /\ file' = Truncated
    /\ Goto(c, "tsv_dump", [op |-> "save_to_disk"])
    /\ snap' = NoSnap
    /\ UNCHANGED <<impl, now, sessions, tableIsDict, lock, sweeper, spc, sloc,
                   issued>>
    /\ Quiet

\* lines 55-56: json.dump(_SESSIONS, f); record_event("sessions.saved")
TSaveDump(c) ==
    /\ LockFree /\ pc[c] = "tsv_dump"
    /\ file' \in Written(file, IF tableIsDict THEN Dump(sessions) ELSE [kind |-> "number"])
    /\ snap' = IF tableIsDict
               THEN [by |-> c, tbl |-> sessions, written |-> TRUE] ELSE NoSnap
    /\ tel' = Emit({"sessions.saved"}, FALSE)
    /\ Finish(c, [op |-> "save_to_disk", outcome |-> "return"])
    /\ UNCHANGED <<impl, now, sessions, tableIsDict, lock, sweeper, spc, sloc,
                   calls, issued>>

\* lines 58-62: open(path) raises when there is no file; else _SESSIONS is
\* rebound to whatever json.load returns
TLoad(c) ==
    /\ LockFree /\ Begin(c)
    /\ IF file.kind = "missing"
       THEN /\ Finish(c, LoadRes("raise", "missing", sessions, sessions, FALSE, EmptyTable))
            /\ UNCHANGED <<sessions, tableIsDict, issued, snap>>
            /\ Quiet
       ELSE IF ParseFails(file)
       THEN /\ Finish(c, LoadRes("raise", "JSONDecodeError", sessions, sessions,
                                 FALSE, EmptyTable))
            /\ UNCHANGED <<sessions, tableIsDict, issued, snap>>
            /\ Quiet
       ELSE LET loaded == IF file.kind = "object"
                          THEN FromMembers(file.members) ELSE EmptyTable
                roundtrip == snap # NoSnap /\ snap.written
            IN  /\ sessions' = loaded
                /\ tableIsDict' = (file.kind = "object")
                /\ issued' = [sid \in Sids |->
                                IF issued[sid] = NoIssue THEN NoIssue
                                ELSE [issued[sid] EXCEPT !.intact = FALSE]]
                /\ snap' = IF roundtrip THEN snap ELSE NoSnap
                /\ tel' = Emit({"sessions.loaded"}, FALSE)
                /\ Finish(c, LoadRes("return", "loaded", sessions, loaded, roundtrip,
                                     IF roundtrip THEN snap.tbl ELSE EmptyTable))
    /\ UNCHANGED <<impl, now, lock, sweeper, spc, sloc, file>>

NextTest ==
    \/ Tick
    \/ \E c \in Callers : TStartSweeperCheck(c)
    \/ \E c \in Callers : TStartSweeperStart(c)
    \/ \E c \in Callers : TSweepScan(c)
    \/ \E c \in Callers : TSweepDel(c)
    \/ \E c \in Callers : TCreate(c)
    \/ \E c \in Callers : TValidateCall(c)
    \/ \E c \in Callers : TValidateCheck(c)
    \/ \E c \in Callers : TSaveOpen(c)
    \/ \E c \in Callers : TSaveDump(c)
    \/ \E c \in Callers : TLoad(c)

SpecTest == InitTest /\ [][NextTest]_vars

\* ================================================================ claims
Validated(c) == pc[c] = "done" /\ res[c].op = "validate_token"
Loaded(c) == pc[c] = "done" /\ res[c].op = "load_from_disk"

\* the validation answers to a create_session of a session id without "."
\* whose record no load has replaced and no later create_session has overwritten
AnswersIntact(c) ==
    /\ Validated(c)
    /\ res[c].issue # NoIssue
    /\ res[c].issue.intact
    /\ ~HasDot(res[c].issue.sid)

\* ... with ttl > 0, and the clock has not advanced since expires_at was set
Immediate(c) ==
    /\ AnswersIntact(c)
    /\ res[c].issue.ttl > 0
    /\ res[c].vnow = res[c].issue.texp

\* C1: round trip.  A token issued by create_session for a session id without
\* "." and ttl > 0, validated with the same secret with no clock advance and no
\* load or create for the id in between, yields the user id, sweeper or not.
C1_RoundTrip ==
    \A c \in Callers :
        Immediate(c) => res[c].outcome = "value" /\ res[c].val = res[c].issue.uid

C1_Witness ==
    \E c \in Callers : Immediate(c) /\ res[c].outcome = "value" /\ Running # {}

\* C2: expiry monotonicity.  While the record of a session created with ttl t
\* is neither overwritten nor replaced by a load, validate_token yields the user
\* id at every now < created_at + t and None at every now >= created_at + t.
C2_ExpiryMonotone ==
    \A c \in Callers :
        AnswersIntact(c) =>
            IF res[c].vnow < res[c].issue.created_at + res[c].issue.ttl
            THEN res[c].outcome = "value" /\ res[c].val = res[c].issue.uid
            ELSE res[c].outcome = "none"

\* C3: signature integrity.  A token that differs from an issued token in
\* exactly one character of the signature makes validate_token return None.
C3_FlippedSignature ==
    \A c \in Callers : (Validated(c) /\ res[c].flipped) => res[c].outcome = "none"

\* C4: validate_token never mutates the table: each of its steps leaves the
\* set of session ids and every record as they were; an expired record it sees
\* is not removed.
ValidateStep(c) ==
    \/ calls' # calls /\ pc'[c] = "done" /\ res'[c].op = "validate_token"
    \/ pc[c] # "vt_check" /\ pc'[c] = "vt_check"
    \/ pc[c] = "vt_check" /\ pc'[c] # "vt_check"

C4_ValidateNoWrite ==
    [][(\E c \in Callers : ValidateStep(c)) => sessions' = sessions]_vars

C4_Witness ==
    \E c \in Callers :
        /\ Validated(c) /\ res[c].why = "expired" /\ res[c].issue # NoIssue
        /\ res[c].issue.sid \in DOMAIN sessions
        /\ SessionExpired(sessions[res[c].issue.sid], res[c].vnow)

\* C5: idempotent start.  After any calls to start_sweeper, however they
\* interleave, no more than one sweeper thread has been started.
C5_OneSweeper == Cardinality({c \in Callers : spc[c] # "unstarted"}) <= 1

\* what a table shows: its session ids and each one's user_id and expires_at
Observable(tbl) ==
    [sid \in DOMAIN tbl |->
        [f \in DOMAIN tbl[sid] \cap {"user_id", "expires_at"} |-> tbl[sid][f]]]

\* C6: persistence round trip.  save_to_disk then load_from_disk, with nothing
\* else touching the table or the file in between, leaves a table with the same
\* session ids and the same user_id and expires_at for each.
C6_SaveLoadRoundTrip ==
    \A c \in Callers :
        (Loaded(c) /\ res[c].roundtrip)
            => Observable(res[c].after) = Observable(res[c].expect)

C6_Witness ==
    \E c \in Callers :
        /\ Loaded(c) /\ res[c].roundtrip
        /\ \E sid \in DOMAIN res[c].after : "expires_at" \in DOMAIN res[c].after[sid]

\* C7: a load from a path with no file returns normally and leaves the table
\* exactly as it was, in Examples/ and in Examples-test/.
C7_MissingFileNoOp ==
    \A c \in Callers :
        (Loaded(c) /\ res[c].why = "missing")
            => res[c].outcome = "return" /\ res[c].after = res[c].before

\* C8: a load that raises leaves the table as it was before the call.
C8_FailedLoadUnchanged ==
    \A c \in Callers :
        (Loaded(c) /\ res[c].outcome = "raise") => res[c].after = res[c].before

\* a load has cleared the table and not yet inserted all it loaded
MidLoad(c) ==
    /\ pc[c] = "ld_update"
    /\ loc[c].data.kind = "object"
    /\ loc[c].todo # <<>>

\* C9: atomic replacement.  While a successful load is between its clear and
\* the end of its bulk insert, no validate_token, save_to_disk, create_session
\* or sweeper tick reads or writes the table.
C9_AtomicReplace ==
    [][\A c \in Callers :
          MidLoad(c) =>
             /\ ~ \E d \in Callers \ {c} :
                     ValidateCheck(d) \/ SaveCopy(d) \/ CreateInsert(d)
             /\ ~ \E d \in Callers : SweeperScan(d)]_vars

C9_Witness ==
    \E c \in Callers :
        /\ MidLoad(c)
        /\ loc[c].before # EmptyTable
        /\ sessions # EmptyTable /\ Len(loc[c].todo) = 1 /\ Len(loc[c].data.members) = 2
        /\ \E d \in Callers : spc[d] = "lock"

\* C10: validate_token never raises: on every table reached by create_session,
\* successful loads and sweeper ticks it returns a user id or None (checked on
\* the tokens made of ASCII characters).
C10_ValidateNeverRaises ==
    \A c \in Callers : (Validated(c) /\ res[c].ascii) => res[c].outcome # "raise"

\* a step of the sweeper thread made by c that ends a tick
SweeperPass(c) == spc[c] = "scan" /\ spc'[c] # "scan"

\* C11: the sweeper never evicts a live session.  Under every interleaving of
\* ticks with create_session, each record a tick removes has expires_at <= the
\* clock at the moment of removal, so a record written with a future expires_at
\* is never deleted by a tick that read the clock before the create.
C11_SweepOnlyExpired ==
    [][\A c \in Callers :
          SweeperPass(c) =>
             \A sid \in DOMAIN sessions \ DOMAIN sessions' :
                 "expires_at" \in DOMAIN sessions[sid]
                     => sessions[sid].expires_at <= now]_vars

\* a tick has just removed a record while a record created with a later
\* expiry stays in the table
C11_Witness ==
    /\ \E e \in tel : e.name = "session.expired"
    /\ \E c \in Callers : pc[c] = "done" /\ res[c].op = "create_session"
    /\ \E sid \in DOMAIN sessions :
          "expires_at" \in DOMAIN sessions[sid] /\ sessions[sid].expires_at > now

\* start_sweeper has been called and has started a thread
SweeperStarted == \E c \in Callers : spc[c] # "unstarted"

\* the table holds a record for sid whose expires_at has passed
HoldsExpired(sid) ==
    /\ sid \in DOMAIN sessions
    /\ IsDict(sessions[sid])
    /\ "expires_at" \in DOMAIN sessions[sid]
    /\ sessions[sid].expires_at <= now

\* C12: eventual eviction.  Once the sweeper has been started, in every fair
\* run a record whose expires_at <= now is eventually gone from the table,
\* unless create_session or load_from_disk puts an unexpired record in its
\* place, whatever calls run concurrently.
C12_EventualEviction ==
    \A sid \in Sids :
        (SweeperStarted /\ HoldsExpired(sid)) ~> ~HoldsExpired(sid)

\* steps of save_to_disk made by c: any, the copy, the dump
SaveStep(c) ==
    \/ pc[c] # "sv_copy" /\ pc'[c] = "sv_copy"
    \/ pc[c] \in {"sv_copy", "sv_open", "sv_dump"} /\ pc'[c] # pc[c]

SaveCopyStep(c) == pc[c] = "sv_copy" /\ pc'[c] = "sv_open"

SaveDumpStep(c) == pc[c] = "sv_dump" /\ pc'[c] = "done"

\* C13: consistent save snapshot.  Whatever create_session, load_from_disk and
\* sweeper ticks run concurrently, save_to_disk copies the whole table at one
\* instant, holding the lock, while no load is between its clear and the end
\* of its insert; the mapping it writes to the file (no other save having
\* written since it opened the file) is that copy, complete; and no step of
\* save_to_disk changes the table.
C13_ConsistentSnapshot ==
    [][\A c \in Callers :
          /\ SaveStep(c) => sessions' = sessions
          /\ SaveCopyStep(c) =>
                /\ lock = HeldByCaller(c)
                /\ loc'[c].data = sessions
                /\ \A d \in Callers : pc[d] # "ld_update"
          /\ (SaveDumpStep(c) /\ file = Truncated) =>
                /\ file'.kind = "object"
                /\ FromMembers(file'.members) = loc[c].data]_vars

\* a save has just written a copy with two records while the table has moved
\* on since the copy was taken
C13_Witness ==
    /\ \E e \in tel : e.name = "session.saved"
    /\ file.kind = "object" /\ Len(file.members) = 2
    /\ FromMembers(file.members) # sessions

\* C14: no telemetry under the table lock.  No step of create_session,
\* validate_token, the sweeper tick, save_to_disk or load_from_disk calls
\* record_event or inc while its thread holds _LOCK.
C14_NoTelemetryUnderLock == \A e \in tel : ~e.locked

\* the validation answers to a create_session of a session id that contains
\* ".", made with ttl > 0, the record in place and the clock not advanced
ImmediateDotted(c) ==
    /\ Validated(c)
    /\ res[c].issue # NoIssue
    /\ res[c].issue.intact
    /\ HasDot(res[c].issue.sid)
    /\ res[c].issue.ttl > 0
    /\ res[c].vnow = res[c].issue.texp

\* C15: session ids that contain the delimiter round-trip.  The token that
\* create_session returns for a session id with "." in it and ttl > 0,
\* validated at once with the same secret, yields the user id.
C15_DottedRoundTrip ==
    \A c \in Callers :
        ImmediateDotted(c) => res[c].outcome = "value" /\ res[c].val = res[c].issue.uid

\* a call is in progress or the table lock is held
Busy == lock # Free \/ \E c \in Callers : pc[c] \notin {"idle", "done"}

\* C16: deadlock freedom and termination.  In every fair run, with or without
\* the sweeper, from any state in which calls are in progress or the lock is
\* held a state is reached in which each of those calls has returned or raised
\* and the lock is free; and no caller whose call has ended, also by an
\* exception inside the with block, still holds the lock.
C16_Termination ==
    /\ [](\A c \in Callers : pc[c] \in {"idle", "done"} => lock # HeldByCaller(c))
    /\ Busy ~> ~Busy

\* a load has raised inside its with block, the lock is free, a sweeper runs
C16_Witness ==
    /\ \E c \in Callers : Loaded(c) /\ res[c].why = "TypeError"
    /\ lock = Free
    /\ Running # {}

Created(c) == pc[c] = "done" /\ res[c].op = "create_session" /\ res[c].outcome = "value"

\* C17: overwrite semantics.  After a second create_session for a session id
\* the table holds one record for it, with the second call's user id and
\* expires_at; both calls return the same token; and that token validates to
\* the second user id, never the first, for as long as the second record has
\* not expired.
C17_Overwrite ==
    /\ \A sid \in Sids :
          (issued[sid] # NoIssue /\ issued[sid].intact /\ sid \in DOMAIN sessions)
             => /\ sessions[sid].user_id = issued[sid].uid
                /\ sessions[sid].expires_at = issued[sid].texp + issued[sid].ttl
    /\ \A c, d \in Callers :
          (Created(c) /\ Created(d) /\ res[c].sid = res[d].sid)
             => res[c].token = res[d].token
    /\ \A c \in Callers :
          (Validated(c) /\ res[c].issue # NoIssue /\ res[c].issue.intact
              /\ res[c].outcome = "value")
             => /\ res[c].val = res[c].issue.uid
                /\ res[c].vnow < res[c].issue.texp + res[c].issue.ttl

\* the token validates to the second user id after a create_session that
\* replaced the record of another user
C17_Witness ==
    \E c \in Callers :
        /\ Validated(c) /\ res[c].outcome = "value"
        /\ res[c].issue # NoIssue /\ res[c].issue.intact
        /\ res[c].issue.over \notin {"none", res[c].issue.uid}
        /\ res[c].val = res[c].issue.uid

\* a step of the lock-free sweeper made by c that deletes, or fails to
SweepDelStep(c) == LockFree /\ spc[c] = "del" /\ spc'[c] # "unstarted"

\* C18: in Examples-test/ no record with a future expiry is deleted by a
\* sweeper pass: each record that a delete step removes has expires <= now,
\* also when create_session has written it after the pass listed the expired
\* ids, so a session created with ttl > 0 is there to validate at once.
C18_NoLiveDelete ==
    [][\A c \in Callers :
          SweepDelStep(c) =>
             \A sid \in DOMAIN sessions \ DOMAIN sessions' :
                 ("expires" \in DOMAIN sessions[sid]) => sessions[sid].expires <= now]_vars

\* C19: in Examples-test/ the sweeper runs forever: whatever create_session
\* and load_from_disk do between its scan and its deletes, no delete step
\* fails, so the thread never ends.
C19_SweeperNeverFails ==
    [][\A c \in Callers : SweepDelStep(c) => spc'[c] # "dead"]_vars

\* C20: expiry boundary in Examples-test/.  A correctly signed token whose
\* record is in place is answered with None at every now with expires <= now,
\* the time now = expires included.
C20_ExpiryBoundary ==
    \A c \in Callers :
        (LockFree /\ AnswersIntact(c)
            /\ res[c].issue.texp + res[c].issue.ttl <= res[c].vnow)
           => res[c].outcome = "none"

============================================================================
